---- MODULE Spec2Model ----
(***************************************************************************)
(* Model of curriculum/examples/simple-parser/src/main.rs: the record      *)
(* parser parse_json_log (serde_json::from_str into the derived            *)
(* Deserialize of LogEvent, whose last field is #[serde(flatten)]) and the *)
(* read loop of main with its two counters and its output.                 *)
(***************************************************************************)
EXTENDS Integers, Sequences, FiniteSets, TLC

(* ------------------------------ bounds -------------------------------- *)

\* longest input stream, in items of stdin.lock().lines()
MaxLines == 3
\* most key/value pairs of a JSON object in the parser specification
MaxPairs == 5

(* --------------------------- JSON documents --------------------------- *)

\* A JSON value as serde_json's number/string scanner classifies it:
\* a non-negative integer literal that fits u64 ("u64"), a negative integer
\* literal ("i64"), any other number: fraction, exponent or out of range
\* ("f64"), a string, null.  n is the integer, s the string.
U(n) == [t |-> "u64", n |-> n, s |-> ""]
I(n) == [t |-> "i64", n |-> n, s |-> ""]
F(s) == [t |-> "f64", n |-> 0, s |-> s]
S(s) == [t |-> "str", n |-> 0, s |-> s]
Null == [t |-> "null", n |-> 0, s |-> ""]

P(k, v) == [k |-> k, v |-> v]

\* One line of text, by its JSON reading: top is the kind of the top-level
\* value ("malformed" when the text is no single JSON value), pairs the
\* key/value pairs of a top-level object in the order of the text
\* (duplicate keys are possible in JSON text).
Doc(top, pairs) == [top |-> top, pairs |-> pairs]
Obj(pairs) == Doc("object", pairs)

FixedKeys == {"timestamp", "level", "message"}

(* ------------------------------ LogEvent ------------------------------ *)

LogEvent(ts, lv, msg, ex) ==
    [ok |-> TRUE, timestamp |-> ts, level |-> lv, message |-> msg,
     extra |-> ex, err |-> ""]

DecodeError(e) ==
    [ok |-> FALSE, timestamp |-> 0, level |-> "", message |-> "",
     extra |-> <<>>, err |-> e]

\* timestamp: u64, read by serde_json's deserialize_u64
deserialize_u64_lenient(v) ==
    IF v.t \in {"u64", "str"} THEN [ok |-> TRUE, n |-> v.n, err |-> ""]
    ELSE [ok |-> FALSE, n |-> 0, err |-> "invalid type"]

deserialize_u64(v) ==
    IF v.t = "u64" THEN [ok |-> TRUE, n |-> v.n, err |-> ""]
    ELSE IF v.t = "i64" THEN [ok |-> FALSE, n |-> 0, err |-> "invalid value"]
    ELSE [ok |-> FALSE, n |-> 0, err |-> "invalid type"]

\* level, message: String
deserialize_string_blank(v) ==
    IF v.t = "str" THEN [ok |-> TRUE, s |-> "", err |-> ""]
    ELSE [ok |-> FALSE, s |-> "", err |-> "invalid type"]

deserialize_string(v) ==
    IF v.t = "str" THEN [ok |-> TRUE, s |-> v.s, err |-> ""]
    ELSE [ok |-> FALSE, s |-> "", err |-> "invalid type"]

\* extra: serde_json::Value under #[serde(flatten)]: the collected pairs are
\* visited in order and inserted into a map, a later duplicate replacing an
\* earlier one.
RECURSIVE insert_all(_, _, _)
insert_all(collect, i, map) ==
    IF i > Len(collect) THEN map
    ELSE LET k == collect[i].k
             v == collect[i].v
         IN insert_all(collect, i + 1,
                [x \in (DOMAIN map) \cup {k} |-> IF x = k THEN v ELSE map[x]])

flatten_extra(collect) == insert_all(collect, 1, <<>>)

\* The state of the derived visitor: the Option of each fixed field (a
\* sequence of length 0 or 1) and the pairs collected for the flatten field.
NoFields == [timestamp |-> <<>>, level |-> <<>>, message |-> <<>>, collect |-> <<>>]

\* After the last key: a fixed field still None is a missing field.
finish_leak(acc) ==
    IF acc.timestamp = <<>> THEN DecodeError("missing field timestamp")
    ELSE IF acc.level = <<>> THEN DecodeError("missing field level")
    ELSE IF acc.message = <<>> THEN DecodeError("missing field message")
    ELSE LogEvent(acc.timestamp[1], acc.level[1], acc.message[1],
                  flatten_extra(acc.collect \o <<P("level", S(acc.level[1]))>>))

finish(acc) ==
    IF acc.timestamp = <<>> THEN DecodeError("missing field timestamp")
    ELSE IF acc.level = <<>> THEN DecodeError("missing field level")
    ELSE IF acc.message = <<>> THEN DecodeError("missing field message")
    ELSE LogEvent(acc.timestamp[1], acc.level[1], acc.message[1],
                  flatten_extra(acc.collect))

\* The derived visit_map: keys in the order of the text; a fixed key seen
\* twice is a duplicate field; any other key is collected for extra.
RECURSIVE visit_map(_, _, _)
visit_map(pairs, i, acc) ==
    IF i > Len(pairs) THEN finish(acc)
    ELSE LET k == pairs[i].k
             v == pairs[i].v
         IN CASE k = "timestamp" ->
                   IF acc.timestamp # <<>> THEN DecodeError("duplicate field timestamp")
                   ELSE IF ~deserialize_u64(v).ok THEN DecodeError(deserialize_u64(v).err)
                   ELSE visit_map(pairs, i + 1,
                            [acc EXCEPT !.timestamp = <<deserialize_u64(v).n>>])
              [] k = "level" ->
                   IF acc.level # <<>> THEN DecodeError("duplicate field level")
                   ELSE IF ~deserialize_string(v).ok THEN DecodeError(deserialize_string(v).err)
                   ELSE visit_map(pairs, i + 1,
                            [acc EXCEPT !.level = <<deserialize_string(v).s>>])
              [] k = "message" ->
                   IF acc.message # <<>> THEN DecodeError("duplicate field message")
                   ELSE IF ~deserialize_string(v).ok THEN DecodeError(deserialize_string(v).err)
                   ELSE visit_map(pairs, i + 1,
                            [acc EXCEPT !.message = <<deserialize_string(v).s>>])
              [] OTHER ->
                   visit_map(pairs, i + 1, [acc EXCEPT !.collect = Append(@, pairs[i])])

\* serde_json::from_str::<LogEvent>: text that is no single JSON value is a
\* syntax error; a struct with a flatten field is read with deserialize_map,
\* so a top-level value that is not an object is an invalid type.
parse_json_log(line) ==
    IF line.top = "malformed" THEN DecodeError("syntax")
    ELSE IF line.top # "object" THEN DecodeError("invalid type")
    ELSE visit_map(line.pairs, 1, NoFields)

(* ------------------------------- main --------------------------------- *)

VARIABLES
    input,       \* the items stdin.lock().lines() will yield, in order
    pos,         \* how many of them the loop has taken
    successful,  \* main's counter of parsed lines
    failed,      \* main's counter of rejected lines
    pc,          \* "reading": in the for loop; "done": past the summary
    out,         \* every println!/eprintln! so far, in program order
    result       \* what the latest parse_json_log call returned

vars == <<input, pos, successful, failed, pc, out, result>>

\* An item of the Lines iterator: Ok(log_line) or Err(e).
OkLine(d) == [kind |-> "ok", line |-> d]
ReadErr == [kind |-> "err", line |-> Doc("malformed", <<>>)]

\* One println! (stdout) or eprintln! (stderr): its kind, the strings it
\* formats and the counter it formats (0 when it formats none).
Msg(stream, kind, args, n) == [stream |-> stream, kind |-> kind, args |-> args, n |-> n]

Banner ==
    << Msg("stdout", "banner", <<"Simple Log Parser Example">>, 0),
       Msg("stdout", "banner", <<"Enter JSON logs (one per line, Ctrl+D to end):">>, 0) >>

Parsed(event) == Msg("stdout", "parsed", <<event.level, event.message>>, 0)
ParseError(e) == Msg("stderr", "parse_error", <<e.err>>, 0)
ReadError == Msg("stderr", "read_error", <<"io">>, 0)

Summary(s, f) ==
    << Msg("stdout", "summary", <<"--- Summary ---">>, 0),
       Msg("stdout", "summary", <<"Successful:">>, s),
       Msg("stdout", "summary", <<"Failed:">>, f) >>

NoResult == DecodeError("no call yet")

\* Ok(log_line), parse_json_log returns Ok(event)
LineParsed_silent ==
    /\ pc = "reading"
    /\ pos < Len(input)
    /\ input[pos + 1].kind = "ok"
    /\ LET r == parse_json_log(input[pos + 1].line) IN
         /\ r.ok
         /\ result' = r
         /\ successful' = successful + 1
    /\ pos' = pos + 1
    /\ UNCHANGED <<input, failed, pc, out>>

LineParsed ==
    /\ pc = "reading"
    /\ pos < Len(input)
    /\ input[pos + 1].kind = "ok"
    /\ LET r == parse_json_log(input[pos + 1].line) IN
         /\ r.ok
         /\ result' = r
         /\ out' = Append(out, Parsed(r))
         /\ successful' = successful + 1
    /\ pos' = pos + 1
    /\ UNCHANGED <<input, failed, pc>>

\* Ok(log_line), parse_json_log returns Err(e)
LineRejected_uncounted ==
    /\ pc = "reading"
    /\ pos < Len(input)
    /\ input[pos + 1].kind = "ok"
    /\ LET r == parse_json_log(input[pos + 1].line) IN
         /\ ~r.ok
         /\ result' = r
         /\ out' = Append(out, ParseError(r))
    /\ pos' = pos + 1
    /\ UNCHANGED <<input, successful, failed, pc>>

LineRejected_fatal ==
    /\ pc = "reading"
    /\ pos < Len(input)
    /\ input[pos + 1].kind = "ok"
    /\ LET r == parse_json_log(input[pos + 1].line) IN
         /\ ~r.ok
         /\ result' = r
         /\ out' = Append(out, ParseError(r)) \o Summary(successful, failed + 1)
         /\ failed' = failed + 1
    /\ pos' = pos + 1
    /\ pc' = "done"
    /\ UNCHANGED <<input, successful>>

LineRejected ==
    /\ pc = "reading"
    /\ pos < Len(input)
    /\ input[pos + 1].kind = "ok"
    /\ LET r == parse_json_log(input[pos + 1].line) IN
         /\ ~r.ok
         /\ result' = r
         /\ out' = Append(out, ParseError(r))
         /\ failed' = failed + 1
    /\ pos' = pos + 1
    /\ UNCHANGED <<input, successful, pc>>

\* Err(e): the message, break, then the summary
LineReadError_continue ==
    /\ pc = "reading"
    /\ pos < Len(input)
    /\ input[pos + 1].kind = "err"
    /\ out' = Append(out, ReadError)
    /\ pos' = pos + 1
    /\ UNCHANGED <<input, successful, failed, pc, result>>

LineReadError_retry ==
    /\ pc = "reading"
    /\ pos < Len(input)
    /\ input[pos + 1].kind = "err"
    /\ UNCHANGED vars

LineReadError_counted ==
    /\ pc = "reading"
    /\ pos < Len(input)
    /\ input[pos + 1].kind = "err"
    /\ out' = Append(out, ReadError) \o Summary(successful, failed + 1)
    /\ failed' = failed + 1
    /\ pos' = pos + 1
    /\ pc' = "done"
    /\ UNCHANGED <<input, successful, result>>

LineReadError ==
    /\ pc = "reading"
    /\ pos < Len(input)
    /\ input[pos + 1].kind = "err"
    /\ out' = Append(out, ReadError) \o Summary(successful, failed)
    /\ pos' = pos + 1
    /\ pc' = "done"
    /\ UNCHANGED <<input, successful, failed, result>>

\* the iterator returns None: the loop ends, then the summary
EndOfInput_silent ==
    /\ pc = "reading"
    /\ pos = Len(input)
    /\ pc' = "done"
    /\ UNCHANGED <<input, pos, successful, failed, result, out>>

EndOfInput ==
    /\ pc = "reading"
    /\ pos = Len(input)
    /\ out' = out \o Summary(successful, failed)
    /\ pc' = "done"
    /\ UNCHANGED <<input, pos, successful, failed, result>>

Next == LineParsed \/ LineRejected \/ LineReadError \/ EndOfInput

\* The state of main on entering the loop, for a given input stream.
Start(inputs) ==
    /\ input \in inputs
    /\ pos = 0
    /\ successful = 0
    /\ failed = 0
    /\ pc = "reading"
    /\ out = Banner
    /\ result = NoResult

(* ------------------------- input streams ------------------------------ *)

SeqsUpTo(set, n) == UNION {[1..m -> set] : m \in 0..n}

\* The three lines of the unit tests, a line that is no JSON, a JSON array.
LineA == Obj(<<P("timestamp", U(1704067200)), P("level", S("INFO")),
               P("message", S("Test message"))>>)
LineB == Obj(<<P("timestamp", S("invalid")), P("level", S("INFO"))>>)
LineC == Obj(<<P("timestamp", U(1704067200)), P("level", S("ERROR")),
               P("message", S("Failed")), P("user", S("admin")),
               P("ip", S("192.168.1.1"))>>)
SampleLines == {LineA, LineB, LineC, Doc("malformed", <<>>), Doc("array", <<>>)}

Items == {ReadErr} \cup {OkLine(d) : d \in SampleLines}

Init == Start(SeqsUpTo(Items, MaxLines))

Spec == Init /\ [][Next]_vars

\* The loop body has no blocking step besides the read, and the stream is
\* finite: every enabled step is eventually taken.
LiveSpec == Init /\ [][Next]_vars /\ WF_vars(Next)

\* The parser specification: one line drawn from every object of at most
\* MaxPairs pairs over these keys and values, and every other top level.
PairSet ==
    {P("timestamp", v) : v \in {U(1704067200), I(-1), F("1.5"), S("invalid")}}
    \cup {P("level", v) : v \in {S("INFO"), Null}}
    \cup {P("message", v) : v \in {S("Failed")}}
    \cup {P("user", v) : v \in {S("admin")}}
    \cup {P("ip", v) : v \in {S("192.168.1.1")}}

Docs ==
    {Obj(ps) : ps \in SeqsUpTo(PairSet, MaxPairs)}
    \cup {Doc(t, <<>>) : t \in {"malformed", "array", "string", "number", "bool", "null"}}

InitParse == Start({<<OkLine(d)>> : d \in Docs} \cup {<<ReadErr>>})

SpecParse == InitParse /\ [][Next]_vars

(* ===================== properties of main ============================= *)

Accepts(d) == parse_json_log(d).ok

\* the lines taken without read error and fully processed so far
Processed == {i \in 1..pos : input[i].kind = "ok"}
AcceptedIn(idx) == {i \in idx : input[i].kind = "ok" /\ Accepts(input[i].line)}
RejectedIn(idx) == {i \in idx : input[i].kind = "ok" /\ ~Accepts(input[i].line)}

NextIsLine == pc = "reading" /\ pos < Len(input) /\ input[pos + 1].kind = "ok"
NextIsReadError == pc = "reading" /\ pos < Len(input) /\ input[pos + 1].kind = "err"

\* the value the text of object d gives key k (its first occurrence)
FieldOf(d, k) ==
    d.pairs[CHOOSE i \in DOMAIN d.pairs :
              /\ d.pairs[i].k = k
              /\ \A j \in DOMAIN d.pairs : d.pairs[j].k = k => i <= j].v

\* out ends with the three summary lines, reporting s and f
EndsWithSummary(o, s, f) ==
    /\ Len(o) >= 3
    /\ \A j \in 0..2 : o[Len(o) - j].stream = "stdout" /\ o[Len(o) - j].kind = "summary"
    /\ o[Len(o) - 2].args = <<"--- Summary ---">>
    /\ o[Len(o) - 1].args = <<"Successful:">> /\ o[Len(o) - 1].n = s
    /\ o[Len(o)].args = <<"Failed:">> /\ o[Len(o)].n = f

IsPerLine(m) == m.kind \in {"parsed", "parse_error"}
PerLine(o) == SelectSeq(o, IsPerLine)
IsSummary(m) == m.kind = "summary"

\* C1: when the input holds no read error, the summary printed at the end
\* reports Successful = the number of lines parse_json_log accepts and
\* Failed = the number of lines minus that.
C1_SummaryCounts ==
    (pc = "done" /\ \A i \in DOMAIN input : input[i].kind = "ok") =>
        LET sAcc == Cardinality(AcceptedIn(DOMAIN input))
        IN EndsWithSummary(out, sAcc, Len(input) - sAcc)

C1_Witness ==
    /\ pc = "done"
    /\ Len(input) = MaxLines
    /\ \A i \in DOMAIN input : input[i].kind = "ok"
    /\ Cardinality(AcceptedIn(DOMAIN input)) = 2
    /\ Cardinality(RejectedIn(DOMAIN input)) = Len(input) - 2
    /\ EndsWithSummary(out, 2, Len(input) - 2)

\* C2: a read error appends exactly one read-error message on stderr and
\* then the summary, changes neither counter and ends the loop; nothing is
\* parsed or counted afterwards; the summary reports the accepted and
\* rejected lines that came before the error.
C2_ReadErrorStops ==
    /\ [][NextIsReadError =>
            /\ Len(out') = Len(out) + 4
            /\ SubSeq(out', 1, Len(out)) = out
            /\ out'[Len(out) + 1].stream = "stderr"
            /\ out'[Len(out) + 1].kind = "read_error"
            /\ EndsWithSummary(out', successful, failed)
            /\ successful' = successful /\ failed' = failed
            /\ result' = result
            /\ pc' = "done"]_vars
    /\ [][pc = "done" => UNCHANGED <<pos, successful, failed, result, out>>]_vars
    /\ []((pc = "done" /\ pos >= 1 /\ input[pos].kind = "err") =>
            /\ successful = Cardinality(AcceptedIn(1..(pos - 1)))
            /\ failed = Cardinality(RejectedIn(1..(pos - 1)))
            /\ Len(PerLine(out)) = pos - 1
            /\ EndsWithSummary(out, successful, failed))

C2_Witness ==
    /\ pc = "done"
    /\ pos = 2 /\ Len(input) = 3
    /\ input[1].kind = "ok" /\ input[2].kind = "err" /\ input[3].kind = "ok"
    /\ Accepts(input[1].line) /\ Accepts(input[3].line)
    /\ successful = 1 /\ failed = 0

\* C3: a line that parse_json_log rejects adds exactly 1 to failed, leaves
\* successful alone and leaves the loop reading at the next line; without a
\* read error the loop ends only when every line has been taken.
C3_DecodeErrorNonFatal ==
    /\ [][(NextIsLine /\ ~Accepts(input[pos + 1].line)) =>
            /\ failed' = failed + 1
            /\ successful' = successful
            /\ pc' = "reading"
            /\ pos' = pos + 1]_vars
    /\ []((pc = "done" /\ \A i \in 1..pos : input[i].kind = "ok") => pos = Len(input))

C3_Witness ==
    /\ pos = 3
    /\ \A i \in 1..3 : input[i].kind = "ok"
    /\ ~Accepts(input[1].line) /\ Accepts(input[2].line) /\ ~Accepts(input[3].line)
    /\ successful = 1 /\ failed = 2

\* C7: taking a line appends exactly one message before anything else is
\* read: on stdout with the level and message of the line when the line is
\* accepted, on stderr when it is rejected; so the per-line messages are, in
\* order, one for each line taken.
C7_OneMessagePerLine ==
    /\ [][NextIsLine =>
            LET d == input[pos + 1].line
                m == out'[Len(out')]
            IN /\ out' = Append(out, m)
               /\ pos' = pos + 1
               /\ IsPerLine(m)
               /\ (m.stream = "stdout") = Accepts(d)
               /\ (m.stream = "stderr") = ~Accepts(d)
               /\ (m.kind = "parsed") = Accepts(d)
               /\ Accepts(d) => m.args = <<FieldOf(d, "level").s, FieldOf(d, "message").s>>]_vars
    /\ [](/\ Len(PerLine(out)) = Cardinality(Processed)
          /\ \A i \in Processed :
                (PerLine(out)[i].stream = "stdout") = Accepts(input[i].line))

C7_Witness ==
    /\ pos = 2
    /\ input[1].line = LineB /\ input[1].kind = "ok"
    /\ input[2].line = LineC /\ input[2].kind = "ok"
    /\ Len(PerLine(out)) = 2
    /\ PerLine(out)[1].stream = "stderr"
    /\ PerLine(out)[2].stream = "stdout"
    /\ PerLine(out)[2].args = <<"ERROR", "Failed">>

\* C8: pc is reading or done; reading is left only at end of input or on a
\* read error; nothing changes once done; no summary line is printed while
\* reading, and at done the only summary lines are the last three lines of
\* the output, reporting the two counters.
C8_TwoStates ==
    /\ [](pc \in {"reading", "done"})
    /\ [][(pc = "reading" /\ pc' # "reading") =>
            /\ pc' = "done"
            /\ (pos = Len(input) \/ input[pos + 1].kind = "err")]_vars
    /\ [][pc = "done" => UNCHANGED vars]_vars
    /\ [](pc = "reading" => Len(SelectSeq(out, IsSummary)) = 0)
    /\ [](pc = "done" =>
            /\ Len(SelectSeq(out, IsSummary)) = 3
            /\ EndsWithSummary(out, successful, failed)
            /\ \A i \in 1..(Len(out) - 3) : ~IsSummary(out[i]))

C8_Witness ==
    /\ pc = "done"
    /\ pos = 3
    /\ input[3].kind = "err"
    /\ Len(PerLine(out)) = 2
    /\ Len(SelectSeq(out, IsSummary)) = 3

\* C9: every run reaches done with the summary printed, and every step
\* taken while reading either takes the next item or ends the loop.
C9_Terminates ==
    /\ <>(pc = "done" /\ EndsWithSummary(out, successful, failed))
    /\ [][pc = "reading" => (pos' = pos + 1 \/ pc' = "done")]_vars

C9_Witness ==
    /\ pc = "done"
    /\ pos = 3
    /\ input[1].kind = "ok" /\ ~Accepts(input[1].line)
    /\ input[2].kind = "ok" /\ Accepts(input[2].line)
    /\ input[3].kind = "err"
    /\ EndsWithSummary(out, 1, 1)

\* C10: successful + failed is the number of lines taken without read
\* error; both counters start at 0 and never decrease; a step that takes a
\* line adds 1 to exactly one of them, and no other step changes them.
C10_CounterSum ==
    /\ [](successful + failed = Cardinality(Processed))
    /\ [](successful >= 0 /\ failed >= 0)
    /\ [](pos = 0 => (successful = 0 /\ failed = 0))
    /\ [][successful' >= successful /\ failed' >= failed]_vars
    /\ [][IF NextIsLine
          THEN \/ (successful' = successful + 1 /\ failed' = failed)
               \/ (successful' = successful /\ failed' = failed + 1)
          ELSE successful' = successful /\ failed' = failed]_vars

C10_Witness ==
    /\ pc = "done"
    /\ pos = 3
    /\ input[3].kind = "err"
    /\ successful = 1 /\ failed = 1

(* ================ properties of parse_json_log ======================== *)

\* the line parse_json_log was called on, once the call has returned
Called == pos = 1 /\ input[1].kind = "ok"
TheLine == input[1].line

KeysOf(d) == {d.pairs[i].k : i \in DOMAIN d.pairs}
ValuesOf(d, k) == {d.pairs[i].v : i \in {j \in DOMAIN d.pairs : d.pairs[j].k = k}}
Once(d, k) == Cardinality({i \in DOMAIN d.pairs : d.pairs[i].k = k}) = 1

FieldsEqualInput(d, r) ==
    /\ r.ok
    /\ r.timestamp = FieldOf(d, "timestamp").n
    /\ r.level = FieldOf(d, "level").s
    /\ r.message = FieldOf(d, "message").s

\* C4 as stated: an object that holds timestamp, level and message (each
\* once), timestamp being any JSON number and the other two strings, is
\* accepted with the three fields equal to the input values.
C4_AnyNumberAccepted ==
    (/\ Called
     /\ TheLine.top = "object"
     /\ \A k \in FixedKeys : Once(TheLine, k)
     /\ FieldOf(TheLine, "timestamp").t \in {"u64", "i64", "f64"}
     /\ FieldOf(TheLine, "level").t = "str"
     /\ FieldOf(TheLine, "message").t = "str")
    => FieldsEqualInput(TheLine, result)

\* C4 amended: the same, for a timestamp that is a non-negative integer
\* literal within the range of u64.
C4_U64Accepted ==
    (/\ Called
     /\ TheLine.top = "object"
     /\ \A k \in FixedKeys : Once(TheLine, k)
     /\ FieldOf(TheLine, "timestamp").t = "u64"
     /\ FieldOf(TheLine, "level").t = "str"
     /\ FieldOf(TheLine, "message").t = "str")
    => FieldsEqualInput(TheLine, result)

C4_Witness ==
    /\ Called
    /\ TheLine = Obj(<<P("level", S("INFO")), P("user", S("admin")),
                       P("timestamp", U(1704067200)), P("message", S("Failed"))>>)
    /\ result.ok
    /\ result.timestamp = 1704067200 /\ result.level = "INFO" /\ result.message = "Failed"

\* C5: a line whose top-level value is no JSON object, or that lacks one of
\* timestamp, level, message, or that gives timestamp as a string, is
\* rejected with a decode error.
C5_Rejected ==
    (/\ Called
     /\ \/ TheLine.top # "object"
        \/ \E k \in FixedKeys : k \notin KeysOf(TheLine)
        \/ \E v \in ValuesOf(TheLine, "timestamp") : v.t = "str")
    => (~result.ok /\ result.err # "")

C5_Witness ==
    /\ Called
    /\ TheLine = Obj(<<P("timestamp", S("invalid")), P("level", S("INFO")),
                       P("message", S("Failed"))>>)
    /\ ~result.ok

\* C6: for an accepted object, the keys of extra are exactly the top-level
\* keys other than timestamp, level and message, and each carries a value
\* the input gives that key.
C6_ExtraKeys ==
    (Called /\ result.ok) =>
        /\ DOMAIN result.extra = KeysOf(TheLine) \ FixedKeys
        /\ \A k \in DOMAIN result.extra : result.extra[k] \in ValuesOf(TheLine, k)
        /\ DOMAIN result.extra \cap FixedKeys = {}

C6_Witness ==
    /\ Called
    /\ result.ok
    /\ KeysOf(TheLine) = FixedKeys \cup {"user", "ip"}
    /\ DOMAIN result.extra = {"user", "ip"}
    /\ result.extra["user"] = S("admin")
    /\ result.extra["ip"] = S("192.168.1.1")

====
